---------------------------- MODULE Spec2Model ----------------------------
(***************************************************************************)
(* Model of the bmp repository: bmp_converter (convert_bmp_24_to_4_depth,  *)
(* find_closest_color, color_distance) and bmp_file_tester (main).         *)
(* Files and the header structs are byte sequences; header fields are read *)
(* and written through their packed little-endian layout.                  *)
(***************************************************************************)
EXTENDS Integers, Sequences, FiniteSets, TLC

VARIABLES
    input,             \* bytes of assets/input.bmp
    pc,                \* position of convert_bmp_24_to_4_depth
    inPos,             \* read cursor of input_file
    inFail,            \* failbit of input_file
    bmp_file_header,   \* raw bytes of the bitmap_file_header local
    bmp_info_header,   \* raw bytes of the bitmap_info_header local
    outOpened,         \* output_file has been created/truncated
    out,               \* bytes of assets/output_4bit.bmp
    row, column,       \* loop counters
    outcome,           \* how the converter ended (its diagnostic)
    tpc,               \* position of bmp_file_tester main
    tsrc,              \* which file the tester was pointed at
    tFail,             \* failbit of input_bmp_file
    tPos,              \* read cursor of input_bmp_file
    t_file_header,     \* tester's bitmap_file_header local
    t_info_header,     \* tester's bitmap_info_header local
    treport,           \* what the tester printed to std::cout
    texit,             \* tester's exit status / diagnostic
    qcolor,            \* argument of a stand-alone find_closest_color call
    qindex             \* its result

vars == <<input, pc, inPos, inFail, bmp_file_header, bmp_info_header, outOpened,
          out, row, column, outcome, tpc, tsrc, tFail, tPos, t_file_header,
          t_info_header, treport, texit, qcolor, qindex>>

convVars == <<pc, inPos, inFail, bmp_file_header, bmp_info_header, outOpened,
              out, row, column, outcome>>
testVars == <<tpc, tsrc, tFail, tPos, t_file_header, t_info_header, treport, texit>>
quantVars == <<qcolor, qindex>>

(***************************************************************************)
(* Bounds of the model.                                                    *)
(***************************************************************************)
MaxWidth == 2
MaxHeight == 2

(***************************************************************************)
(* Integer widths and byte-level helpers.                                  *)
(***************************************************************************)
\* Values of 32-bit fields are kept as their 4 little-endian bytes, and 32-bit
\* arithmetic is done on the bytes, so that every bit pattern is covered.
Pow2_8 == 256

MinOf(a, b) == IF a < b THEN a ELSE b

\* Little-endian value of the n bytes of buf starting at 0-based offset off.
RECURSIVE LE(_, _, _)
LE(buf, off, n) ==
    IF n = 0 THEN 0 ELSE buf[off + 1] + Pow2_8 * LE(buf, off + 1, n - 1)

\* The n little-endian bytes of the unsigned value v.
RECURSIVE ToLE(_, _)
ToLE(v, n) ==
    IF n = 0 THEN <<>> ELSE <<v % Pow2_8>> \o ToLE(v \div Pow2_8, n - 1)

\* buf with bytes stored at 0-based offset off.
Put(buf, off, bytes) ==
    [i \in 1..Len(buf) |->
        IF i > off /\ i <= off + Len(bytes) THEN bytes[i - off] ELSE buf[i]]

Fill(n, b) == [i \in 1..n |-> b]

\* The n bytes at 0-based offset off of buf.
Field(buf, off, n) == SubSeq(buf, off + 1, off + n)

\* Value of a std::int32_t stored as the 4 bytes b (two's complement).
AsInt32(b) ==
    IF b[4] >= 128 THEN -LE([i \in 1..4 |-> 255 - b[i]], 0, 4) - 1
    ELSE LE(b, 0, 4)

\* Unsigned n-byte addition; the result is the n sum bytes followed by the
\* carry out.
RECURSIVE AddBytes(_, _, _, _)
AddBytes(a, b, i, carry) ==
    IF i > Len(a) THEN <<carry>>
    ELSE <<(a[i] + b[i] + carry) % Pow2_8>>
         \o AddBytes(a, b, i + 1, (a[i] + b[i] + carry) \div Pow2_8)

\* a + b in std::uint32_t arithmetic (modulo 2^32).
Add32(a, b) == SubSeq(AddBytes(a, b, 1, 0), 1, 4)

\* Whether the exact sum a + b does not fit in 32 bits.
AddOverflows32(a, b) == AddBytes(a, b, 1, 0)[5] = 1

\* Sum of the byte products a[i] * b[j] with (i - 1) + (j - 1) = k.
RECURSIVE MulColumn(_, _, _, _)
MulColumn(a, b, k, i) ==
    IF i > k + 1 THEN 0 ELSE a[i] * b[k + 2 - i] + MulColumn(a, b, k, i + 1)

\* a * b in std::uint32_t arithmetic (modulo 2^32), byte column by column.
RECURSIVE MulBytes(_, _, _, _)
MulBytes(a, b, k, carry) ==
    IF k > 3 THEN <<>>
    ELSE <<(MulColumn(a, b, k, 1) + carry) % Pow2_8>>
         \o MulBytes(a, b, k + 1, (MulColumn(a, b, k, 1) + carry) \div Pow2_8)

Mul32(a, b) == MulBytes(a, b, 0, 0)

\* C++ integer division (truncation toward zero).
TruncDiv(a, b) == IF a >= 0 THEN a \div b ELSE -((-a) \div b)

\* a | b on 8-bit operands.
RECURSIVE BitOr(_, _, _)
BitOr(a, b, bits) ==
    IF bits = 0 THEN 0
    ELSE (IF a % 2 = 1 \/ b % 2 = 1 THEN 1 ELSE 0)
         + 2 * BitOr(a \div 2, b \div 2, bits - 1)

(***************************************************************************)
(* Packed struct layouts (#pragma pack(push, 1)).                          *)
(***************************************************************************)
SizeofFileHeader == 14
SizeofInfoHeader == 40
SizeofRgbQuad == 4
SizeofRgbTriple == 3
SizeofPixelPair == 6

bf_type(h) == LE(h, 0, 2)
bf_size(h) == Field(h, 2, 4)
bf_reserved1(h) == LE(h, 6, 2)
bf_reserved2(h) == LE(h, 8, 2)
bf_off_bits(h) == Field(h, 10, 4)

bi_size(h) == Field(h, 0, 4)
bi_width(h) == AsInt32(Field(h, 4, 4))
bi_height(h) == AsInt32(Field(h, 8, 4))
bi_planes(h) == LE(h, 12, 2)
bi_bit_count(h) == LE(h, 14, 2)
bi_compression(h) == Field(h, 16, 4)
bi_size_image(h) == Field(h, 20, 4)

target_bitcount == 4
BMP_SIGNATURE == 19778
bmp_signature == 19778

\* rgb_triple read from 3 bytes at 0-based offset off of a buffer.
RgbTripleAt(buf, off) ==
    [blue |-> buf[off + 1], green |-> buf[off + 2], red |-> buf[off + 3]]

(***************************************************************************)
(* The palette and the colour quantizer.                                   *)
(***************************************************************************)
Quad(b, g, r, x) == [blue |-> b, green |-> g, red |-> r, reserved |-> x]

palette ==
    << Quad(0, 0, 0, 0),       Quad(0, 0, 255, 0),
       Quad(0, 161, 255, 0),   Quad(159, 160, 255, 0),
       Quad(0, 255, 255, 0),   Quad(0, 160, 163, 0),
       Quad(0, 161, 0, 0),     Quad(0, 255, 0, 0),
       Quad(157, 255, 160, 0), Quad(155, 0, 0, 0),
       Quad(255, 0, 0, 0),     Quad(255, 0, 162, 0),
       Quad(255, 0, 255, 0),   Quad(255, 255, 0, 0),
       Quad(159, 161, 162, 0), Quad(255, 255, 255, 0) >>

\* The bytes palette.data() points at.
RECURSIVE QuadBytes(_, _)
QuadBytes(pal, i) ==
    IF i > Len(pal) THEN <<>>
    ELSE <<pal[i].blue, pal[i].green, pal[i].red, pal[i].reserved>>
         \o QuadBytes(pal, i + 1)

\* color_distance is sqrt of this sum; the sum is an integer below 2^18, and
\* the correctly rounded double square roots of distinct integers of that
\* size are distinct and ordered alike, so the comparison in
\* find_closest_color is the comparison of the sums.
color_distance(color1, color2) ==
    (color2.blue - color1.blue) * (color2.blue - color1.blue)
    + (color2.green - color1.green) * (color2.green - color1.green)
    + (color2.red - color1.red) * (color2.red - color1.red)

\* A comparator that also prefers an equally distant later entry.
distance_to_color_last(color, lhs, rhs) ==
    color_distance(color, lhs) <= color_distance(color, rhs)

\* The comparator lambda of find_closest_color.
distance_to_color(color, lhs, rhs) ==
    color_distance(color, lhs) < color_distance(color, rhs)

\* std::ranges::min_element: a forward scan that keeps the smallest so far
\* and replaces it only by an element that compares less.  i and best are
\* 1-based positions.
RECURSIVE min_element(_, _, _, _)
min_element(color, pal, i, best) ==
    IF i > Len(pal) THEN best
    ELSE min_element(color, pal, i + 1,
                     IF distance_to_color(color, pal[i], pal[best]) THEN i ELSE best)

\* std::distance(begin, min_element(...)) as a std::byte (0-based index).
find_closest_color(color, pal) == (min_element(color, pal, 2, 1) - 1) % Pow2_8

(***************************************************************************)
(* Input files.  A 24-bit file is the two headers, then (from bf_off_bits) *)
(* height rows of width 3-byte BGR triples, each row padded to 4 bytes.    *)
(***************************************************************************)
MakeFileHeader(sig, size, off) ==
    ToLE(sig, 2) \o ToLE(size, 4) \o ToLE(0, 2) \o ToLE(0, 2) \o ToLE(off, 4)

MakeInfoHeader(w, h, bpp, sizeimage) ==
    ToLE(40, 4) \o ToLE(w, 4) \o ToLE(h, 4) \o ToLE(1, 2) \o ToLE(bpp, 2)
    \o ToLE(0, 4) \o ToLE(sizeimage, 4) \o ToLE(2835, 4) \o ToLE(2835, 4)
    \o ToLE(0, 4) \o ToLE(0, 4)

\* Bytes of one stored row of a bpp-bit image of width w.
InputRowSize(w, bpp) == 4 * ((bpp * w + 31) \div 32)

Black == [blue |-> 0, green |-> 0, red |-> 0]
White == [blue |-> 255, green |-> 255, red |-> 255]
PixelColours == {Black, White}

\* The pixel array of a 24-bit image; pix[r * w + c + 1] is pixel (r, c).
PixelArray24(w, h, pix) ==
    [i \in 1..(InputRowSize(w, 24) * h) |->
        LET r == (i - 1) \div InputRowSize(w, 24)
            o == (i - 1) % InputRowSize(w, 24)
            c == o \div 3
        IN  IF o >= 3 * w THEN 0
            ELSE IF o % 3 = 0 THEN pix[r * w + c + 1].blue
            ELSE IF o % 3 = 1 THEN pix[r * w + c + 1].green
            ELSE pix[r * w + c + 1].red]

BmpFile(sig, w, h, bpp, off, data) ==
    MakeFileHeader(sig, off + Len(data), off)
    \o MakeInfoHeader(w, h, bpp, Len(data))
    \o Fill(off - SizeofFileHeader - SizeofInfoHeader, 0)
    \o data

Widths == 1..MaxWidth
Heights == 1..MaxHeight
PixelDataOffsets == {54, 58}
Signatures == {BMP_SIGNATURE, 19280, 66}
BitCounts == {24, 32}
CutPoints == {0, 1, 2, 12, 14, 30, 54, 57, 60}

\* Complete, well-formed 24-bit files.
WellFormedFiles ==
    UNION { { BmpFile(BMP_SIGNATURE, w, h, 24, off, PixelArray24(w, h, pix)) :
                pix \in [1..(w * h) -> PixelColours], off \in PixelDataOffsets } :
            <<w, h>> \in Widths \X Heights }

\* Files of any signature and depth, with blank pixel data.
BlankFiles ==
    { BmpFile(sig, w, h, bpp, 54, Fill(InputRowSize(w, bpp) * h, 255)) :
        sig \in Signatures, w \in Widths, h \in Heights, bpp \in BitCounts }

\* Streams that end early.
TruncatedFiles ==
    { SubSeq(f, 1, MinOf(cut, Len(f))) : f \in BlankFiles, cut \in CutPoints }

InputFiles == WellFormedFiles \cup BlankFiles \cup TruncatedFiles

(***************************************************************************)
(* Indeterminate contents of a local that is declared without initializer. *)
(* The model draws them from a few images stale stack memory can hold:     *)
(* all zero bits, all one bits, and the bytes of an earlier valid header.  *)
(***************************************************************************)
IndeterminateFileHeader ==
    { Fill(SizeofFileHeader, 0), Fill(SizeofFileHeader, 255),
      MakeFileHeader(BMP_SIGNATURE, 62, 54) }

IndeterminateInfoHeader ==
    { Fill(SizeofInfoHeader, 0), Fill(SizeofInfoHeader, 255),
      MakeInfoHeader(2, 1, 24, 8) }

(***************************************************************************)
(* std::istream::read(buf, n) on a stream at pos with failbit fail: when   *)
(* the stream is not good nothing is stored; otherwise the available bytes *)
(* are stored at the start of buf and a short count sets failbit.          *)
(***************************************************************************)
ReadCount(stream, pos, fail, n) ==
    IF fail THEN 0 ELSE MinOf(n, Len(stream) - pos)

IstreamRead(stream, pos, fail, buf) ==
    LET k == ReadCount(stream, pos, fail, Len(buf))
    IN  [buf  |-> [i \in 1..Len(buf) |-> IF i <= k THEN stream[pos + i] ELSE buf[i]],
         pos  |-> pos + k,
         fail |-> fail \/ k < Len(buf)]

(***************************************************************************)
(* convert_bmp_24_to_4_depth.                                              *)
(***************************************************************************)
\* A signature test that looks at the first byte only.
SignatureOk_LowByte(fh) == bf_type(fh) % Pow2_8 = BMP_SIGNATURE % Pow2_8

\* if(bmp_file_header.bf_type != constants::BMP_SIGNATURE) is not taken.
SignatureOk(fh) == bf_type(fh) = BMP_SIGNATURE

\* A depth test that lets deeper images through.
DepthOk_AtLeast(ih) == bi_bit_count(ih) >= 24

\* if(bmp_info_header.bi_bit_count != 24) is not taken.
DepthOk(ih) == bi_bit_count(ih) = 24

\* static_cast<std::uint32_t>(std::ceil(target_bitcount * bi_width / 32) * 4):
\* the division is the integer division of two ints, so std::ceil sees a whole
\* number.
row_size(ih) == ToLE(TruncDiv(target_bitcount * bi_width(ih), 32) * 4, 4)

\* row_size * bi_height: the std::int32_t operand is converted to
\* std::uint32_t, which keeps its bytes.
pixel_array_size(ih) == Mul32(row_size(ih), Field(ih, 8, 4))

\* bf_size = pixel_array_size + sizeof(bitmap_file_header) + sizeof(bitmap_info_header).
NewFileSize(ih) ==
    Add32(pixel_array_size(ih), ToLE(SizeofFileHeader + SizeofInfoHeader, 4))

\* sizeof(rgb_quad) * std::pow(2, target_bitcount).
PaletteSize == SizeofRgbQuad * (2 ^ target_bitcount)

\* bf_off_bits += PaletteSize is done in double and converted back to
\* std::uint32_t; a sum that does not fit is undefined behaviour, for which
\* builds produce the wrapped value, the saturated value or zero.
NewOffBits(off) ==
    IF ~AddOverflows32(off, ToLE(PaletteSize, 4))
    THEN {Add32(off, ToLE(PaletteSize, 4))}
    ELSE {Add32(off, ToLE(PaletteSize, 4)), Fill(4, 255), Fill(4, 0)}

\* Assignment to bmp_file_header.bf_size.
SetFileSize(fh, v) == Put(fh, 2, v)

\* An assignment that lands two bytes early, as with an unpacked layout.
SetOffBits_Misaligned(fh, v) == Put(fh, 8, v)

\* Assignment to bmp_file_header.bf_off_bits.
SetOffBits(fh, v) == Put(fh, 10, v)

\* An assignment that lands on bi_planes instead.
SetBitCount_Planes(ih, v) == Put(ih, 12, ToLE(v, 2))

\* Assignment to bmp_info_header.bi_bit_count.
SetBitCount(ih, v) == Put(ih, 14, ToLE(v, 2))

\* A loop test "counter < field" of a std::size_t counter and a std::int32_t
\* field: the field is converted to std::size_t, so a negative one exceeds
\* every counter the loop reaches.
LoopTest(counter, v) == v < 0 \/ counter < v

\* The two nibbles the other way round.
two_pixels_Swapped(pix) ==
    BitOr((find_closest_color(RgbTripleAt(pix, SizeofRgbTriple), palette) * 16) % Pow2_8,
          find_closest_color(RgbTripleAt(pix, 0), palette), 8)

\* (find_closest_color(pixels.first) << 4) | find_closest_color(pixels.second)
\* on std::byte; pix is the 6 bytes of the std::pair<rgb_triple, rgb_triple>.
two_pixels(pix) ==
    BitOr((find_closest_color(RgbTripleAt(pix, 0), palette) * 16) % Pow2_8,
          find_closest_color(RgbTripleAt(pix, SizeofRgbTriple), palette), 8)

NoBuffer == <<>>

Finish(result) ==
    /\ pc' = "done"
    /\ outcome' = result

\* std::ifstream input_file{...}; the open succeeds.
OpenInput ==
    /\ pc = "open_in"
    /\ pc' = "read_fh"
    /\ UNCHANGED <<input, inPos, inFail, bmp_file_header, bmp_info_header,
                   outOpened, out, row, column, outcome>>
    /\ UNCHANGED <<testVars, quantVars>>

\* if(!input_file) { ...; return; }
OpenInputFails ==
    /\ pc = "open_in"
    /\ Finish("OpenError")
    /\ UNCHANGED <<input, inPos, inFail, bmp_file_header, bmp_info_header,
                   outOpened, out, row, column>>
    /\ UNCHANGED <<testVars, quantVars>>

\* bitmap_file_header bmp_file_header; input_file.read(&bmp_file_header, 14);
ReadFileHeader ==
    /\ pc = "read_fh"
    /\ \E stale \in IndeterminateFileHeader :
         LET r == IstreamRead(input, inPos, inFail, stale)
         IN  /\ bmp_file_header' = r.buf
             /\ inPos' = r.pos
             /\ inFail' = r.fail
    /\ pc' = "read_ih"
    /\ UNCHANGED <<input, bmp_info_header, outOpened, out, row, column, outcome>>
    /\ UNCHANGED <<testVars, quantVars>>

\* bitmap_info_header bmp_info_header; input_file.read(&bmp_info_header, 40);
ReadInfoHeader ==
    /\ pc = "read_ih"
    /\ \E stale \in IndeterminateInfoHeader :
         LET r == IstreamRead(input, inPos, inFail, stale)
         IN  /\ bmp_info_header' = r.buf
             /\ inPos' = r.pos
             /\ inFail' = r.fail
    /\ pc' = "check_sig"
    /\ UNCHANGED <<input, bmp_file_header, outOpened, out, row, column, outcome>>
    /\ UNCHANGED <<testVars, quantVars>>

SignatureMismatch ==
    /\ pc = "check_sig"
    /\ ~SignatureOk(bmp_file_header)
    /\ Finish("SignatureError")
    /\ UNCHANGED <<input, inPos, inFail, bmp_file_header, bmp_info_header,
                   outOpened, out, row, column>>
    /\ UNCHANGED <<testVars, quantVars>>

SignatureAccepted ==
    /\ pc = "check_sig"
    /\ SignatureOk(bmp_file_header)
    /\ pc' = "check_depth"
    /\ UNCHANGED <<input, inPos, inFail, bmp_file_header, bmp_info_header,
                   outOpened, out, row, column, outcome>>
    /\ UNCHANGED <<testVars, quantVars>>

DepthMismatch ==
    /\ pc = "check_depth"
    /\ ~DepthOk(bmp_info_header)
    /\ Finish("DepthError")
    /\ UNCHANGED <<input, inPos, inFail, bmp_file_header, bmp_info_header,
                   outOpened, out, row, column>>
    /\ UNCHANGED <<testVars, quantVars>>

DepthAccepted ==
    /\ pc = "check_depth"
    /\ DepthOk(bmp_info_header)
    /\ pc' = "open_out"
    /\ UNCHANGED <<input, inPos, inFail, bmp_file_header, bmp_info_header,
                   outOpened, out, row, column, outcome>>
    /\ UNCHANGED <<testVars, quantVars>>

\* std::ofstream output_file{...}; the file is created empty.
OpenOutput ==
    /\ pc = "open_out"
    /\ outOpened' = TRUE
    /\ out' = <<>>
    /\ pc' = "update"
    /\ UNCHANGED <<input, inPos, inFail, bmp_file_header, bmp_info_header,
                   row, column, outcome>>
    /\ UNCHANGED <<testVars, quantVars>>

\* if(!output_file) { ...; return; }
OpenOutputFails ==
    /\ pc = "open_out"
    /\ Finish("OutputOpenError")
    /\ UNCHANGED <<input, inPos, inFail, bmp_file_header, bmp_info_header,
                   outOpened, out, row, column>>
    /\ UNCHANGED <<testVars, quantVars>>

\* Update file headers for 4-bit depth.
UpdateHeaders ==
    /\ pc = "update"
    /\ \E off \in NewOffBits(bf_off_bits(bmp_file_header)) :
         bmp_file_header' =
            SetOffBits(SetFileSize(bmp_file_header, NewFileSize(bmp_info_header)), off)
    /\ bmp_info_header' = SetBitCount(bmp_info_header, target_bitcount)
    /\ pc' = "write_hdr"
    /\ UNCHANGED <<input, inPos, inFail, outOpened, out, row, column, outcome>>
    /\ UNCHANGED <<testVars, quantVars>>

\* The three output_file.write calls before the loops.
WriteHeaders ==
    /\ pc = "write_hdr"
    /\ out' = out \o bmp_file_header \o bmp_info_header \o QuadBytes(palette, 1)
    /\ row' = 0
    /\ pc' = "for_row"
    /\ UNCHANGED <<input, inPos, inFail, bmp_file_header, bmp_info_header,
                   outOpened, column, outcome>>
    /\ UNCHANGED <<testVars, quantVars>>

\* row < bmp_info_header.bi_height holds: the inner loop starts.
EnterRow ==
    /\ pc = "for_row"
    /\ LoopTest(row, bi_height(bmp_info_header))
    /\ column' = 0
    /\ pc' = "for_col"
    /\ UNCHANGED <<input, inPos, inFail, bmp_file_header, bmp_info_header,
                   outOpened, out, row, outcome>>
    /\ UNCHANGED <<testVars, quantVars>>

\* row < bmp_info_header.bi_height fails: the function returns.
LeaveRows ==
    /\ pc = "for_row"
    /\ ~(LoopTest(row, bi_height(bmp_info_header)))
    /\ Finish("Returned")
    /\ UNCHANGED <<input, inPos, inFail, bmp_file_header, bmp_info_header,
                   outOpened, out, row, column>>
    /\ UNCHANGED <<testVars, quantVars>>

\* One pass of the inner loop body, and column += 2.  The pair is
\* value-initialized (all bytes zero) before the read.
ConvertPair ==
    /\ pc = "for_col"
    /\ LoopTest(column, bi_width(bmp_info_header))
    /\ LET r == IstreamRead(input, inPos, inFail, Fill(SizeofPixelPair, 0))
       IN  /\ inPos' = r.pos
           /\ inFail' = r.fail
           /\ out' = Append(out, two_pixels(r.buf))
    /\ column' = column + 2
    /\ UNCHANGED <<input, pc, bmp_file_header, bmp_info_header, outOpened,
                   row, outcome>>
    /\ UNCHANGED <<testVars, quantVars>>

\* column < bmp_info_header.bi_width fails: ++row.
EndRow ==
    /\ pc = "for_col"
    /\ ~(LoopTest(column, bi_width(bmp_info_header)))
    /\ row' = row + 1
    /\ pc' = "for_row"
    /\ UNCHANGED <<input, inPos, inFail, bmp_file_header, bmp_info_header,
                   outOpened, out, column, outcome>>
    /\ UNCHANGED <<testVars, quantVars>>

(***************************************************************************)
(* bmp_file_tester main, run on a file after the converter has ended.      *)
(***************************************************************************)
TesterFile == IF tsrc = "output" THEN out ELSE input

TesterSignatureOk(fh) == bf_type(fh) = bmp_signature

NoReport == [printed |-> FALSE]

\* What operator<< prints for the three fields.
ReportOf(ih) ==
    [printed |-> TRUE, width |-> bi_width(ih), height |-> bi_height(ih),
     bits |-> bi_bit_count(ih)]

\* std::ifstream input_bmp_file{...}; the open succeeds.
TesterOpen ==
    /\ pc = "done"
    /\ tpc = "open_in"
    /\ \E src \in {"input", "output"} :
         /\ src = "output" => outOpened
         /\ tsrc' = src
    /\ tpc' = "read_fh"
    /\ UNCHANGED <<tFail, tPos, t_file_header, t_info_header, treport, texit>>
    /\ UNCHANGED <<input, convVars, quantVars>>

\* if(!input_bmp_file) { ...; return EXIT_FAILURE; }
TesterOpenFails ==
    /\ pc = "done"
    /\ tpc = "open_in"
    /\ \E src \in {"input", "output"} : tsrc' = src
    /\ tpc' = "done"
    /\ texit' = "OpenError"
    /\ UNCHANGED <<tFail, tPos, t_file_header, t_info_header, treport>>
    /\ UNCHANGED <<input, convVars, quantVars>>

TesterReadFileHeader ==
    /\ tpc = "read_fh"
    /\ \E stale \in IndeterminateFileHeader :
         LET r == IstreamRead(TesterFile, tPos, tFail, stale)
         IN  /\ t_file_header' = r.buf
             /\ tPos' = r.pos
             /\ tFail' = r.fail
    /\ tpc' = "read_ih"
    /\ UNCHANGED <<tsrc, t_info_header, treport, texit>>
    /\ UNCHANGED <<input, convVars, quantVars>>

TesterReadInfoHeader ==
    /\ tpc = "read_ih"
    /\ \E stale \in IndeterminateInfoHeader :
         LET r == IstreamRead(TesterFile, tPos, tFail, stale)
         IN  /\ t_info_header' = r.buf
             /\ tPos' = r.pos
             /\ tFail' = r.fail
    /\ tpc' = "check_sig"
    /\ UNCHANGED <<tsrc, t_file_header, treport, texit>>
    /\ UNCHANGED <<input, convVars, quantVars>>

\* if(bmp_file_header.bfType != bmp_signature) { ...; return EXIT_FAILURE; }
TesterSignatureMismatch ==
    /\ tpc = "check_sig"
    /\ ~TesterSignatureOk(t_file_header)
    /\ tpc' = "done"
    /\ texit' = "SignatureError"
    /\ UNCHANGED <<tsrc, tFail, tPos, t_file_header, t_info_header, treport>>
    /\ UNCHANGED <<input, convVars, quantVars>>

\* std::cout << "Width: " << ... ; main returns 0.
TesterReport ==
    /\ tpc = "check_sig"
    /\ TesterSignatureOk(t_file_header)
    /\ treport' = ReportOf(t_info_header)
    /\ tpc' = "done"
    /\ texit' = "Success"
    /\ UNCHANGED <<tsrc, tFail, tPos, t_file_header, t_info_header>>
    /\ UNCHANGED <<input, convVars, quantVars>>

(***************************************************************************)
(* Specification of the two programs.                                      *)
(***************************************************************************)
ConverterIdle ==
    /\ pc = "open_in"
    /\ inPos = 0
    /\ inFail = FALSE
    /\ bmp_file_header = NoBuffer
    /\ bmp_info_header = NoBuffer
    /\ outOpened = FALSE
    /\ out = <<>>
    /\ row = 0
    /\ column = 0
    /\ outcome = "none"

TesterIdle ==
    /\ tpc = "open_in"
    /\ tsrc = "none"
    /\ tFail = FALSE
    /\ tPos = 0
    /\ t_file_header = NoBuffer
    /\ t_info_header = NoBuffer
    /\ treport = NoReport
    /\ texit = "none"

\* No call made yet: one past the last palette index.
NoIndex == Len(palette)

Init ==
    /\ input \in InputFiles
    /\ ConverterIdle
    /\ TesterIdle
    /\ qcolor = Black
    /\ qindex = NoIndex

Next ==
    \/ OpenInput
    \/ OpenInputFails
    \/ ReadFileHeader
    \/ ReadInfoHeader
    \/ SignatureMismatch
    \/ SignatureAccepted
    \/ DepthMismatch
    \/ DepthAccepted
    \/ OpenOutput
    \/ OpenOutputFails
    \/ UpdateHeaders
    \/ WriteHeaders
    \/ EnterRow
    \/ LeaveRows
    \/ ConvertPair
    \/ EndRow
    \/ TesterOpen
    \/ TesterOpenFails
    \/ TesterReadFileHeader
    \/ TesterReadInfoHeader
    \/ TesterSignatureMismatch
    \/ TesterReport

Spec == Init /\ [][Next]_vars

(***************************************************************************)
(* Specification of stand-alone calls of find_closest_color.               *)
(***************************************************************************)
ChannelValues == {0, 34, 64, 129, 161, 205, 208, 255}

Colours ==
    { [blue |-> b, green |-> g, red |-> r] :
        b \in ChannelValues, g \in ChannelValues, r \in ChannelValues }

InitQuant ==
    /\ input = <<>>
    /\ ConverterIdle
    /\ TesterIdle
    /\ qcolor \in Colours
    /\ qindex = NoIndex

CallFindClosestColor ==
    /\ qindex = NoIndex
    /\ qindex' = find_closest_color(qcolor, palette)
    /\ UNCHANGED <<qcolor, input, convVars, testVars>>

NextQuant == CallFindClosestColor

SpecQuant == InitQuant /\ [][NextQuant]_vars

(***************************************************************************)
(* What the input file says, read from its bytes.                          *)
(***************************************************************************)
HeadersSize == SizeofFileHeader + SizeofInfoHeader

InHasHeaders == Len(input) >= HeadersSize
InFileHeader == SubSeq(input, 1, SizeofFileHeader)
InInfoHeader == SubSeq(input, SizeofFileHeader + 1, HeadersSize)
InWidth == bi_width(InInfoHeader)
InHeight == bi_height(InInfoHeader)
InOffBits == AsInt32(bf_off_bits(InFileHeader))

WellFormed24 ==
    /\ InHasHeaders
    /\ <<input[1], input[2]>> = <<66, 77>>
    /\ bi_bit_count(InInfoHeader) = 24
    /\ InWidth >= 1
    /\ InHeight >= 1
    /\ InOffBits >= HeadersSize
    /\ Len(input) = InOffBits + InputRowSize(InWidth, 24) * InHeight

\* Pixel (r, c) of a well-formed 24-bit input.
InPixel(r, c) ==
    RgbTripleAt(input, InOffBits + r * InputRowSize(InWidth, 24) + 3 * c)

Converted == pc = "done" /\ outcome = "Returned"

\* Where the pixel data starts in the output: after both headers and the
\* 16 palette entries.
OutDataStart == HeadersSize + Len(QuadBytes(palette, 1))

\* The 4-bit index the converter wrote in its pass for row r, column c.
WrittenIndex(r, c) ==
    LET b == out[OutDataStart + r * ((InWidth + 1) \div 2) + (c \div 2) + 1]
    IN  IF c % 2 = 0 THEN b \div 16 ELSE b % 16

\* 4 * ceil(w / 8).
PaddedRowBytes(w) == 4 * ((w + 7) \div 8)

(***************************************************************************)
(* C1: for every well-formed 24-bit input, after the conversion the index  *)
(* written for row r, column c is the nearest palette index of input pixel *)
(* (r, c), the pixel stored at bf_off_bits + r * rowsize + 3 * c.          *)
(***************************************************************************)
C1_EveryPixelQuantized ==
    (WellFormed24 /\ Converted) =>
        \A r \in 0..(InHeight - 1), c \in 0..(InWidth - 1) :
            WrittenIndex(r, c) = find_closest_color(InPixel(r, c), palette)

(***************************************************************************)
(* C2: running the tester on the output of a conversion of a well-formed   *)
(* 24-bit input reports 4 bits per pixel and the input's width and height. *)
(***************************************************************************)
C2_InspectAfterConvert ==
    (WellFormed24 /\ Converted /\ tpc = "done" /\ tsrc = "output"
     /\ texit # "OpenError") =>
        /\ texit = "Success"
        /\ treport = [printed |-> TRUE, width |-> InWidth, height |-> InHeight,
                      bits |-> 4]

C2_Witness ==
    /\ WellFormed24 /\ Converted /\ tpc = "done" /\ tsrc = "output"
    /\ InWidth = 2 /\ InHeight = 2
    /\ treport = [printed |-> TRUE, width |-> 2, height |-> 2, bits |-> 4]

(***************************************************************************)
(* C3: the bf_size written by the converter is                             *)
(* 4 * ceil(W / 8) * H + 14 + 40 + 64.                                     *)
(***************************************************************************)
C3_FileSizeField ==
    (InHasHeaders /\ InWidth >= 1 /\ InHeight >= 1 /\ Converted) =>
        Field(out, 2, 4) =
            ToLE(PaddedRowBytes(InWidth) * InHeight + 14 + 40 + 64, 4)

(***************************************************************************)
(* C4: the converter writes exactly 4 * ceil(W / 8) bytes for each pixel   *)
(* row: at every row boundary the pixel data written so far is that many   *)
(* bytes per finished row.                                                 *)
(***************************************************************************)
C4_RowBytesPadded ==
    (InHasHeaders /\ InWidth >= 1 /\ InHeight >= 1 /\ outOpened
     /\ (pc = "for_row" \/ Converted)) =>
        Len(out) - OutDataStart = row * PaddedRowBytes(InWidth)

(***************************************************************************)
(* C5: an input whose first two bytes are not 0x42 0x4D ends both programs *)
(* in the signature error, and the converter never opens or writes the     *)
(* output file.                                                            *)
(***************************************************************************)
\* The stream holds a first or a second byte that differs from 'B', 'M'.
BadSignature ==
    \/ Len(input) >= 1 /\ input[1] # 66
    \/ Len(input) >= 2 /\ input[2] # 77

C5_SignatureRejected ==
    BadSignature =>
        /\ ~outOpened
        /\ out = <<>>
        /\ pc \notin {"check_depth", "open_out", "update", "write_hdr",
                      "for_row", "for_col"}
        /\ pc = "done" => outcome \in {"OpenError", "SignatureError"}
        /\ (tpc = "done" /\ tsrc = "input") =>
              /\ texit \in {"OpenError", "SignatureError"}
              /\ treport = NoReport

C5_Witness ==
    /\ BadSignature
    /\ pc = "done" /\ outcome = "SignatureError"
    /\ tpc = "done" /\ tsrc = "input" /\ texit = "SignatureError"
    /\ ~outOpened

(***************************************************************************)
(* C6: an input with the BM signature and a bit count other than 24 ends   *)
(* the converter in the depth error; the signature is tested before the    *)
(* depth, and the output file is opened only after both tests passed.      *)
(***************************************************************************)
InHasBitCount == Len(input) >= SizeofFileHeader + 16
InBitCount == LE(input, SizeofFileHeader + 14, 2)

BadDepth ==
    /\ InHasBitCount
    /\ <<input[1], input[2]>> = <<66, 77>>
    /\ InBitCount # 24

C6_DepthRejected ==
    /\ BadDepth =>
          /\ ~outOpened
          /\ pc = "done" => outcome \in {"OpenError", "DepthError"}
    /\ (pc = "check_depth" \/ outcome = "DepthError") => SignatureOk(bmp_file_header)
    /\ (InHasBitCount /\ BadSignature /\ InBitCount # 24) => outcome # "DepthError"
    /\ pc = "open_out" => (SignatureOk(bmp_file_header) /\ DepthOk(bmp_info_header))
    /\ outOpened =>
          /\ pc \in {"update", "write_hdr", "for_row", "for_col", "done"}
          /\ outcome \in {"none", "Returned"}
          /\ SignatureOk(bmp_file_header)
          /\ InHasBitCount => InBitCount = 24

C6_Witness ==
    /\ BadDepth
    /\ InBitCount = 32
    /\ pc = "done" /\ outcome = "DepthError"
    /\ ~outOpened

(***************************************************************************)
(* C7: find_closest_color returns an index in 0..15 of a palette entry at  *)
(* minimum squared distance from the colour, and the smallest such index.  *)
(***************************************************************************)
C7_ClosestLowestIndex ==
    qindex # NoIndex =>
        /\ qindex \in 0..15
        /\ \A j \in 1..Len(palette) :
              /\ color_distance(qcolor, palette[qindex + 1])
                    <= color_distance(qcolor, palette[j])
              /\ j < qindex + 1 =>
                    color_distance(qcolor, palette[j])
                       > color_distance(qcolor, palette[qindex + 1])

\* A call on a colour that has two palette entries at the minimum distance.
C7_Witness ==
    /\ qindex # NoIndex
    /\ \E j \in 1..Len(palette) :
          /\ j # qindex + 1
          /\ color_distance(qcolor, palette[j])
                = color_distance(qcolor, palette[qindex + 1])

(***************************************************************************)
(* C8: every packed byte written is 16 * index(left pixel of the pair read)*)
(* + index(right pixel), after the headers and the 16 palette entries; the *)
(* 2x1 input black, white gives the single data byte 0x0F.                 *)
(***************************************************************************)
\* Byte i (0-based) of the input as the pair reads see it: the pairs are
\* read one after the other from the end of the headers into zeroed pairs.
InByteOrZero(i) == IF i < Len(input) THEN input[i + 1] ELSE 0

\* The k-th (1-based) pair of pixels read.
PairRead(k) ==
    [i \in 1..SizeofPixelPair |->
        InByteOrZero(HeadersSize + SizeofPixelPair * (k - 1) + i - 1)]

Example2x1 ==
    BmpFile(BMP_SIGNATURE, 2, 1, 24, 54, PixelArray24(2, 1, <<Black, White>>))

C8_PackedBytes ==
    (outOpened /\ Len(out) >= OutDataStart) =>
        /\ SubSeq(out, HeadersSize + 1, OutDataStart) = QuadBytes(palette, 1)
        /\ bi_bit_count(Field(out, SizeofFileHeader, SizeofInfoHeader)) = 4
        /\ \A k \in 1..(Len(out) - OutDataStart) :
              out[OutDataStart + k] =
                 16 * find_closest_color(RgbTripleAt(PairRead(k), 0), palette)
                 + find_closest_color(RgbTripleAt(PairRead(k), 3), palette)
        /\ (input = Example2x1 /\ Converted) =>
              (Len(out) = OutDataStart + 1 /\ out[OutDataStart + 1] = 15)

C8_Witness ==
    /\ input = Example2x1
    /\ Converted
    /\ out[OutDataStart + 1] = 15

(***************************************************************************)
(* C9: once a read of the input has come up short the converter aborts     *)
(* with an error: it does not go on to test or use the headers and writes  *)
(* nothing more to the output.                                             *)
(***************************************************************************)
C9_AbortsOnShortRead ==
    [][(inFail /\ pc # "done") =>
          (pc' = "done" /\ outcome' # "Returned" /\ out' = out
           /\ outOpened' = outOpened)]_vars

(***************************************************************************)
(* C10: after a successful conversion the output info header is the input  *)
(* info header with bi_bit_count set to 4, and the output file header      *)
(* keeps the signature and the reserved fields, with bf_off_bits 64 more.  *)
(***************************************************************************)
C10_HeaderFrame ==
    (InHasHeaders /\ Converted) =>
        /\ \A i \in (SizeofFileHeader + 1)..HeadersSize :
              out[i] = IF i = SizeofFileHeader + 15 THEN 4
                       ELSE IF i = SizeofFileHeader + 16 THEN 0
                       ELSE input[i]
        /\ Field(out, 0, 2) = Field(input, 0, 2)
        /\ Field(out, 6, 4) = Field(input, 6, 4)
        /\ AsInt32(Field(out, 10, 4)) = InOffBits + 64

C10_Witness ==
    /\ InHasHeaders /\ Converted
    /\ InOffBits = 58
    /\ AsInt32(Field(out, 10, 4)) = 122
    /\ bi_bit_count(Field(out, SizeofFileHeader, SizeofInfoHeader)) = 4

(***************************************************************************)
(* C11: for every accepted input, the bf_off_bits written to the output is *)
(* the byte position in the output file at which the converter writes the  *)
(* first packed pixel byte (14 + 40 + 64 = 118).                           *)
(***************************************************************************)
\* The headers and the palette are written and no pixel pair yet: the next
\* byte written is the first packed pixel byte, at position Len(out).
AtFirstPixelByte == outOpened /\ pc = "for_row" /\ row = 0

C11_OffBitsPointsAtData ==
    (InHasHeaders /\ AtFirstPixelByte) =>
        /\ Len(out) = OutDataStart
        /\ Field(out, 10, 4) = ToLE(Len(out), 4)

=============================================================================
